---- MODULE Spec2Model ----
(***************************************************************************)
(* Model of server.js: an express server that bridges MQTT telemetry to    *)
(* authenticated web clients (signed cookie, latest-record cache, SSE      *)
(* fan-out, command publish).                                              *)
(*                                                                         *)
(* Text is modelled as a sequence of one-character strings, so that split, *)
(* trim, startsWith and JSON.parse are computed as the code computes them. *)
(***************************************************************************)
EXTENDS Integers, Sequences, FiniteSets, TLC

(***************************************************************************)
(* Bounds of the model.                                                    *)
(***************************************************************************)
MaxSkew == 1
MaxMsgs == 2
MaxRes == 2
MaxCmds == 1
MaxConnects == 2

(***************************************************************************)
(* Text constants.                                                         *)
(***************************************************************************)
TOPIC_PREFIX == <<"e","m","b","a","r","c","a","t","e","c","h">>
DASH_USER == <<"a","d","m","i","n">>
DASH_PASS == <<"a","d","m","i","n","1","2","3">>
AUTH_SECRET == "CHANGE_ME_TO_A_LONG_RANDOM_SECRET_32+"
COOKIE_NAME == "auth"
TokenTtlMs == 43200000

StrTelemetry == <<"t","e","l","e","m","e","t","r","y">>
StrCmd == <<"c","m","d">>
StrOther == <<"o","t","h","e","r">>
StrApi == <<"a","p","i">>
StrApiSlash == <<"/","a","p","i","/">>
StrDevices == <<"d","e","v","i","c","e","s">>
StrDevice == <<"d","e","v","i","c","e">>
StrState == <<"s","t","a","t","e">>
StrStream == <<"s","t","r","e","a","m">>
StrIndex == <<"i","n","d","e","x",".","h","t","m","l">>
StrS1 == <<"s","1">>
StrS2 == <<"s","2">>
StrS1Padded == <<" ","s","1">>
StrS10 == <<"s","1","0">>
StrBlank == <<" ">>
StrLogin == <<"l","o","g","i","n">>
StrEmpty == << >>

(***************************************************************************)
(* String helpers (String.prototype.split / trim / startsWith, sort).      *)
(***************************************************************************)
RECURSIVE SplitFrom(_, _, _, _)
SplitFrom(s, sep, i, cur) ==
  IF i > Len(s) THEN <<cur>>
  ELSE IF s[i] = sep THEN <<cur>> \o SplitFrom(s, sep, i + 1, << >>)
  ELSE SplitFrom(s, sep, i + 1, Append(cur, s[i]))

Split(s, sep) == SplitFrom(s, sep, 1, << >>)

RECURSIVE Join(_, _)
Join(parts, sep) ==
  IF Len(parts) = 0 THEN << >>
  ELSE IF Len(parts) = 1 THEN parts[1]
  ELSE parts[1] \o <<sep>> \o Join(Tail(parts), sep)

RECURSIVE TrimLeft(_)
TrimLeft(s) ==
  IF Len(s) > 0 /\ s[1] = " " THEN TrimLeft(Tail(s)) ELSE s

RECURSIVE TrimRight(_)
TrimRight(s) ==
  IF Len(s) > 0 /\ s[Len(s)] = " " THEN TrimRight(SubSeq(s, 1, Len(s) - 1)) ELSE s

Trim(s) == TrimRight(TrimLeft(s))

StartsWith(s, p) == Len(s) >= Len(p) /\ SubSeq(s, 1, Len(p)) = p

(***************************************************************************)
(* JavaScript null, as a value that can sit where a record can.            *)
(***************************************************************************)
JsNull == [t |-> "null"]

(***************************************************************************)
(* AUTH: the signed cookie.  A token string is held as the list of its     *)
(* dot-separated segments.  b64url(JSON.stringify(obj)) is an encoded      *)
(* segment that decodes back to obj; the HMAC is an ideal keyed digest of  *)
(* the payload segment, 43 base64url characters long.                      *)
(***************************************************************************)
HmacLen == 43

b64url(obj) == [enc |-> "b64json", u |-> obj.u, exp |-> obj.exp]

Hmac(key, payload) == [key |-> key, over |-> payload, len |-> HmacLen]

\* a signToken that signs the object and not its encoding
signTokenOverObject(payloadObj) ==
  <<b64url(payloadObj), Hmac(AUTH_SECRET, payloadObj)>>

signToken(payloadObj) ==
  LET payload == b64url(payloadObj)
      sig == Hmac(AUTH_SECRET, payload)
  IN  <<payload, sig>>

\* JSON.parse(Buffer.from(payload, "base64url")): throws unless the segment
\* is the encoding of an object
DecodeThrows(payload) == payload.enc # "b64json"

DecodeObj(payload) == [u |-> payload.u, exp |-> payload.exp]

\* a verifyToken that compares the lengths of the signatures only
verifyTokenLengthOnly(token, now) ==
  IF Len(token) = 0 THEN JsNull
  ELSE IF Len(token) # 2 THEN JsNull
  ELSE LET payload == token[1]
           sig == token[2]
           expected == Hmac(AUTH_SECRET, payload)
       IN  IF sig.len # expected.len THEN JsNull
           ELSE IF DecodeThrows(payload) THEN JsNull
           ELSE LET obj == DecodeObj(payload)
                IN  IF obj.exp = 0 \/ now > obj.exp THEN JsNull ELSE obj

verifyToken(token, now) ==
  IF Len(token) = 0 THEN JsNull
  ELSE IF Len(token) # 2 THEN JsNull
  ELSE LET payload == token[1]
           sig == token[2]
           expected == Hmac(AUTH_SECRET, payload)
       IN  IF sig.len # expected.len THEN JsNull
           ELSE IF sig # expected THEN JsNull
           ELSE IF DecodeThrows(payload) THEN JsNull
           ELSE LET obj == DecodeObj(payload)
                IN  IF obj.exp = 0 \/ now > obj.exp THEN JsNull ELSE obj

\* a call verifyToken(value) with any JavaScript value: the typeof test of the
\* first line, then the rest on the string
verifyTokenCall(value, now) ==
  IF value.type # "string" THEN JsNull ELSE verifyToken(value.str, now)

(***************************************************************************)
(* Telemetry payloads: Buffer.toString("utf8") and JSON.parse.             *)
(* A buffer is a sequence of bytes; every byte of the model is an ASCII    *)
(* character except "xFF", which is no valid UTF-8 and decodes to U+FFFD.  *)
(* JsonParse accepts the JSON subset  null | number | {"key":value}        *)
(* without white space, and throws on everything else.                     *)
(***************************************************************************)
ToStringUtf8(buf) ==
  [i \in 1..Len(buf) |-> IF buf[i] = "xFF" THEN "uFFFD" ELSE buf[i]]

Digits == {"0","1","2","3","4","5","6","7","8","9"}

ParseFail == [ok |-> FALSE, val |-> JsNull, rest |-> << >>]

RECURSIVE CountDigits(_)
CountDigits(s) ==
  IF Len(s) > 0 /\ s[1] \in Digits THEN 1 + CountDigits(Tail(s)) ELSE 0

RECURSIVE CountUntilQuote(_)
CountUntilQuote(s) ==
  IF Len(s) = 0 \/ s[1] = "\"" THEN 0 ELSE 1 + CountUntilQuote(Tail(s))

ParseNumber(s) ==
  LET n == CountDigits(s)
      r == SubSeq(s, n + 1, Len(s))
  IN  IF n = 0 THEN ParseFail
      ELSE IF Len(r) > 0 /\ r[1] = "."
           THEN LET m == CountDigits(Tail(r))
                IN  IF m = 0 THEN ParseFail
                    ELSE [ok |-> TRUE,
                          val |-> [t |-> "num", v |-> SubSeq(s, 1, n + 1 + m)],
                          rest |-> SubSeq(s, n + m + 2, Len(s))]
           ELSE [ok |-> TRUE, val |-> [t |-> "num", v |-> SubSeq(s, 1, n)], rest |-> r]

RECURSIVE ParseValue(_)
ParseValue(s) ==
  IF StartsWith(s, <<"n","u","l","l">>)
  THEN [ok |-> TRUE, val |-> JsNull, rest |-> SubSeq(s, 5, Len(s))]
  ELSE IF Len(s) > 0 /\ s[1] \in Digits THEN ParseNumber(s)
  ELSE IF Len(s) > 1 /\ s[1] = "{" /\ s[2] = "\""
  THEN LET k == CountUntilQuote(SubSeq(s, 3, Len(s)))
           afterKey == SubSeq(s, k + 3, Len(s))
       IN  IF Len(afterKey) < 2 \/ afterKey[1] # "\"" \/ afterKey[2] # ":"
           THEN ParseFail
           ELSE LET inner == ParseValue(SubSeq(afterKey, 3, Len(afterKey)))
                IN  IF ~inner.ok \/ Len(inner.rest) = 0 \/ inner.rest[1] # "}"
                    THEN ParseFail
                    ELSE [ok |-> TRUE,
                          val |-> [t |-> "obj", k |-> SubSeq(s, 3, k + 2), v |-> inner.val],
                          rest |-> Tail(inner.rest)]
  ELSE ParseFail

JsonParse(text) ==
  LET r == ParseValue(text)
  IN  IF r.ok /\ Len(r.rest) = 0 THEN [threw |-> FALSE, val |-> r.val]
      ELSE [threw |-> TRUE, val |-> JsNull]

\* JSON.stringify(obj): the serialized document
JsonStringify(obj) == [doc |-> obj]

(***************************************************************************)
(* Map and Set of JavaScript: entries in insertion order, one per key.     *)
(***************************************************************************)
MapIndex(m, k) == {i \in 1..Len(m) : m[i].k = k}

MapHas(m, k) == MapIndex(m, k) # {}

\* a get() that returns the value of the first entry, whatever its key
MapGetFirst(m, k) == m[1].v

MapGet(m, k) == m[CHOOSE i \in MapIndex(m, k) : TRUE].v

\* a set() that adds an entry without looking for the key
MapSetAppend(m, k, v) == Append(m, [k |-> k, v |-> v])

MapSet(m, k, v) ==
  IF MapHas(m, k)
  THEN [i \in 1..Len(m) |-> IF m[i].k = k THEN [k |-> k, v |-> v] ELSE m[i]]
  ELSE Append(m, [k |-> k, v |-> v])

MapDelete(m, k) == SelectSeq(m, LAMBDA e : e.k # k)

MapKeys(m) == [i \in 1..Len(m) |-> m[i].k]

SetHas(s, x) == \E i \in 1..Len(s) : s[i] = x

SetAdd(s, x) == IF SetHas(s, x) THEN s ELSE Append(s, x)

SetDelete(s, x) == SelectSeq(s, LAMBDA e : e # x)

(***************************************************************************)
(* Array.prototype.sort() without comparator: by UTF-16 code units.        *)
(***************************************************************************)
Alphabet ==
  <<" ", "\"", ".", "/", "0", "1", "2", "3", "4", "5", "6", "7", "8", "9", ":",
    "a", "b", "c", "d", "e", "f", "g", "h", "i", "j", "k", "l", "m", "n", "o",
    "p", "q", "r", "s", "t", "u", "v", "w", "x", "y", "z", "{", "}">>

CharCode(c) == CHOOSE i \in 1..Len(Alphabet) : Alphabet[i] = c

RECURSIVE StrLess(_, _)
StrLess(a, b) ==
  IF Len(b) = 0 THEN FALSE
  ELSE IF Len(a) = 0 THEN TRUE
  ELSE IF a[1] = b[1] THEN StrLess(Tail(a), Tail(b))
  ELSE CharCode(a[1]) < CharCode(b[1])

RECURSIVE InsertSorted(_, _)
InsertSorted(sorted, x) ==
  IF Len(sorted) = 0 THEN <<x>>
  ELSE IF StrLess(x, sorted[1]) THEN <<x>> \o sorted
  ELSE <<sorted[1]>> \o InsertSorted(Tail(sorted), x)

\* a sort() that leaves the array as it is
SortNone(arr) == arr

RECURSIVE Sort(_)
Sort(arr) ==
  IF Len(arr) = 0 THEN << >>
  ELSE InsertSorted(Sort(SubSeq(arr, 1, Len(arr) - 1)), arr[Len(arr)])

(***************************************************************************)
(* The cookie header: a list of name=value pairs.  A value is the          *)
(* percent-encoding of a token, or a text that is no valid                 *)
(* percent-encoding, on which decodeURIComponent throws.                   *)
(***************************************************************************)
NoToken == << >>

encodeURIComponent(token) == [pct |-> "ok", tok |-> token]

MalformedValue == [pct |-> "bad", tok |-> NoToken]

getCookie(header, name) ==
  LET idx == {i \in 1..Len(header) : header[i].k = name}
  IN  IF idx = {} THEN [threw |-> FALSE, val |-> NoToken]
      ELSE LET first == CHOOSE i \in idx : \A j \in idx : i <= j
               v == header[first].v
           IN  IF v.pct = "bad" THEN [threw |-> TRUE, val |-> NoToken]
               ELSE [threw |-> FALSE, val |-> v.tok]

(***************************************************************************)
(* HTTP responses.                                                         *)
(***************************************************************************)
Response(status, error, location, body) ==
  [status |-> status, error |-> error, location |-> location, body |-> body]

Unauthorized == Response(401, "unauthorized", "", JsNull)

RedirectTo(location) == Response(302, "", location, JsNull)

ServerError == Response(500, "", "", JsNull)

DeviceRequired == Response(400, "device required", "", JsNull)

PublishFailed == Response(500, "publish_failed", "", [ok |-> FALSE])

\* requireAuth that looks for the cookie only and not at what verifyToken says
requireAuthCookieOnly(req, now) ==
  LET c == getCookie(req.cookie, COOKIE_NAME)
  IN  IF c.threw THEN [next |-> FALSE, resp |-> ServerError, user |-> JsNull]
      ELSE IF Len(c.val) = 0
           THEN IF StartsWith(req.path, StrApiSlash)
                THEN [next |-> FALSE, resp |-> Unauthorized, user |-> JsNull]
                ELSE [next |-> FALSE, resp |-> RedirectTo("/login"), user |-> JsNull]
           ELSE [next |-> TRUE, resp |-> JsNull, user |-> verifyToken(c.val, now)]

\* requireAuth: what it answers, or that it calls next()
requireAuth(req, now) ==
  LET c == getCookie(req.cookie, COOKIE_NAME)
  IN  IF c.threw THEN [next |-> FALSE, resp |-> ServerError, user |-> JsNull]
      ELSE LET data == verifyToken(c.val, now)
           IN  IF data = JsNull
               THEN IF StartsWith(req.path, StrApiSlash)
                    THEN [next |-> FALSE, resp |-> Unauthorized, user |-> JsNull]
                    ELSE [next |-> FALSE, resp |-> RedirectTo("/login"), user |-> JsNull]
               ELSE [next |-> TRUE, resp |-> JsNull, user |-> data]

(***************************************************************************)
(* MQTT bridge helpers.                                                    *)
(***************************************************************************)
\* a getDeviceFromTopic that does not compare the first segment
getDeviceFromTopicAnyPrefix(topic) ==
  LET parts == Split(topic, "/")
  IN  IF Len(parts) < 3 THEN [null |-> TRUE, val |-> << >>]
      ELSE [null |-> FALSE, val |-> parts[2]]

getDeviceFromTopic(topic) ==
  LET parts == Split(topic, "/")
  IN  IF Len(parts) < 3 THEN [null |-> TRUE, val |-> << >>]
      ELSE IF parts[1] # TOPIC_PREFIX THEN [null |-> TRUE, val |-> << >>]
      ELSE [null |-> FALSE, val |-> parts[2]]

\* sseSend: two writes to the response, the event line and the data line
sseSend(out, event, obj) ==
  out \o << [field |-> "event", text |-> event, json |-> JsNull],
            [field |-> "data", text |-> "", json |-> JsonStringify(obj)] >>

\* what a client reads from the stream: one event per event line + data line
RECURSIVE SseEvents(_)
SseEvents(out) ==
  IF Len(out) < 2 THEN << >>
  ELSE IF out[1].field = "event" /\ out[2].field = "data"
       THEN <<[event |-> out[1].text, data |-> out[2].json.doc]>>
            \o SseEvents(SubSeq(out, 3, Len(out)))
       ELSE SseEvents(Tail(out))

(***************************************************************************)
(* State.                                                                  *)
(*   now             Date.now()                                            *)
(*   jar             the auth cookie the browser holds (Set-Cookie)        *)
(*   latestByDevice  Map device -> record                                  *)
(*   sseByDevice     Map device -> Set(res)                                *)
(*   streams         per response object of a stream request: whether it   *)
(*                   is unused, open, broken (the connection is dead and   *)
(*                   the close event has not been handled) or closed, and  *)
(*                   the device of its closure                             *)
(*   written         what was written to each stream response              *)
(*   mqttConnected   mqttClient.connected                                  *)
(*   mqttSubs        the subscribe calls made so far, each with what its   *)
(*                   callback was called with                              *)
(*   cmds            the publish calls and what their callback answered    *)
(*   msgCount        number of bus messages handled                        *)
(*   last            the event the loop handled last, with its answer      *)
(***************************************************************************)
VARIABLES now, jar, latestByDevice, sseByDevice, streams, written,
          mqttConnected, mqttSubs, cmds, msgCount, last

vars == <<now, jar, latestByDevice, sseByDevice, streams, written,
          mqttConnected, mqttSubs, cmds, msgCount, last>>

Res == 1..MaxRes

(***************************************************************************)
(* Inputs.                                                                 *)
(***************************************************************************)
Slashed(parts) == <<"/">> \o Join(parts, "/")

Topics ==
  { Join(<<TOPIC_PREFIX, StrS1, StrTelemetry>>, "/"),
    Join(<<TOPIC_PREFIX, StrS2, StrTelemetry>>, "/"),
    Join(<<StrOther, StrS1, StrTelemetry>>, "/"),
    Join(<<TOPIC_PREFIX, StrS1>>, "/"),
    Join(<<TOPIC_PREFIX, StrEmpty, StrTelemetry>>, "/") }

BufTemp == <<"{", "\"", "t", "e", "m", "p", "\"", ":", "2", "1", ".", "5", "}">>
BufBinary == <<"{", "xFF", "}">>

Payloads == {BufTemp, BufBinary}

DeviceParams == {StrS1, StrS2, StrS1Padded, StrBlank}

StreamParams == {StrS1, StrS2, StrS1Padded}

Credentials == { [user |-> DASH_USER, pass |-> DASH_PASS],
                 [user |-> DASH_USER, pass |-> StrEmpty] }

ForgedToken(t) ==
  LET payload == b64url([u |-> DASH_USER, exp |-> t + TokenTtlMs])
  IN  <<payload, Hmac("guess", payload)>>

\* a payload segment that is no base64url of a JSON text
GarbagePayload == [enc |-> "text", u |-> StrEmpty, exp |-> 0]

\* what a forger makes of an issued token: another signature of the same
\* length, a shortened signature, a payload changed at the same length (one
\* digit of exp), a payload with another identity
TamperedTokens(token) ==
  { <<token[1], Hmac("guess", token[1])>>,
    <<token[1], [token[2] EXCEPT !.len = HmacLen - 1]>>,
    <<[token[1] EXCEPT !.exp = @ + 1], token[2]>>,
    <<[token[1] EXCEPT !.u = StrOther], token[2]>> }

\* strings that are no token: the empty string, one segment, three segments,
\* and signed payloads that decode to no object or to one without exp
MalformedTokens(token) ==
  { NoToken,
    <<token[1]>>,
    <<token[1], token[2], token[2]>>,
    <<GarbagePayload, Hmac(AUTH_SECRET, GarbagePayload)>>,
    signToken([u |-> DASH_USER, exp |-> 0]) }

JsString(token) == [type |-> "string", str |-> token]

\* values that are no string
NonStrings == { [type |-> "undefined"], [type |-> "number"], [type |-> "object"] }

\* the values verifyToken is called with once a cookie has been issued
VerifyInputs ==
  { JsString(t) : t \in {jar} \cup TamperedTokens(jar) \cup MalformedTokens(jar) }
    \cup NonStrings

CookieHeaders ==
  { << >>,
    << [k |-> COOKIE_NAME, v |-> encodeURIComponent(jar)] >>,
    << [k |-> COOKIE_NAME, v |-> encodeURIComponent(ForgedToken(now))] >>,
    << [k |-> COOKIE_NAME, v |-> MalformedValue] >> }

PublicFiles == { Slashed(<<StrIndex>>) }

Request(method, path, cookie) == [method |-> method, path |-> path, cookie |-> cookie]

Http(req, resp) == [kind |-> "http", req |-> req, at |-> now, resp |-> resp]

(***************************************************************************)
(* Init: the state after the module has been loaded.                       *)
(***************************************************************************)
Init ==
  /\ now = 1
  /\ jar = NoToken
  /\ latestByDevice = << >>
  /\ sseByDevice = << >>
  /\ streams = [r \in Res |-> [state |-> "unused", device |-> << >>]]
  /\ written = [r \in Res |-> << >>]
  /\ mqttConnected = FALSE
  /\ mqttSubs = << >>
  /\ cmds = << >>
  /\ msgCount = 0
  /\ last = [kind |-> "start"]

(***************************************************************************)
(* The clock advances, by a millisecond or by the lifetime of a token.     *)
(***************************************************************************)
Tick(step) ==
  /\ now + step <= 1 + TokenTtlMs + MaxSkew
  /\ (now + step - 1) % TokenTtlMs <= MaxSkew
  /\ now' = now + step
  /\ last' = [kind |-> "tick"]
  /\ UNCHANGED <<jar, latestByDevice, sseByDevice, streams, written,
                 mqttConnected, mqttSubs, cmds, msgCount>>

(***************************************************************************)
(* POST /login                                                             *)
(***************************************************************************)
PostLogin(cred) ==
  LET req == Request("POST", Slashed(<<StrLogin>>), << >>)
  IN  IF cred.user = DASH_USER /\ cred.pass = DASH_PASS
      THEN /\ jar' = signToken([u |-> cred.user, exp |-> now + TokenTtlMs])
           /\ last' = Http(req, RedirectTo("/"))
           /\ UNCHANGED <<now, latestByDevice, sseByDevice, streams, written,
                          mqttConnected, mqttSubs, cmds, msgCount>>
      ELSE /\ last' = Http(req, RedirectTo("/login?e=1"))
           /\ UNCHANGED <<now, jar, latestByDevice, sseByDevice, streams, written,
                          mqttConnected, mqttSubs, cmds, msgCount>>

(***************************************************************************)
(* verifyToken applied to a value, as requireAuth applies it to what it    *)
(* finds in the cookie.                                                    *)
(***************************************************************************)
CallVerifyToken(value) ==
  /\ jar # NoToken
  /\ last' = [kind |-> "verify", value |-> value, at |-> now,
              result |-> verifyTokenCall(value, now)]
  /\ UNCHANGED <<now, jar, latestByDevice, sseByDevice, streams, written,
                 mqttConnected, mqttSubs, cmds, msgCount>>

(***************************************************************************)
(* requireAuth in front of a handler: the handler runs only after next().  *)
(* Every request passes the requireAuth mounted on "/" with the static     *)
(* files; the API routes name it once more, with the same outcome.         *)
(***************************************************************************)
Gate(req, Handler) ==
  LET a == requireAuth(req, now)
  IN  IF a.next THEN Handler
      ELSE /\ last' = Http(req, a.resp)
           /\ UNCHANGED <<now, jar, latestByDevice, sseByDevice, streams, written,
                          mqttConnected, mqttSubs, cmds, msgCount>>

\* express.static: the dashboard files
GetStatic(cookie) ==
  \E path \in PublicFiles :
    LET req == Request("GET", path, cookie)
    IN  Gate(req,
             /\ last' = Http(req, Response(200, "", "", [file |-> path]))
             /\ UNCHANGED <<now, jar, latestByDevice, sseByDevice, streams, written,
                            mqttConnected, mqttSubs, cmds, msgCount>>)

\* GET /api/devices
GetDevices(cookie) ==
  LET req == Request("GET", Slashed(<<StrApi, StrDevices>>), cookie)
  IN  Gate(req,
           /\ last' = Http(req, Response(200, "", "",
                                   [devices |-> Sort(MapKeys(latestByDevice))]))
           /\ UNCHANGED <<now, jar, latestByDevice, sseByDevice, streams, written,
                          mqttConnected, mqttSubs, cmds, msgCount>>)

\* GET /api/state
GetState(cookie) ==
  LET req == Request("GET", Slashed(<<StrApi, StrState>>), cookie)
  IN  Gate(req,
           /\ last' = Http(req, Response(200, "", "",
                                   [mqtt |-> [connected |-> mqttConnected],
                                    prefix |-> TOPIC_PREFIX,
                                    devices |-> MapKeys(latestByDevice)]))
           /\ UNCHANGED <<now, jar, latestByDevice, sseByDevice, streams, written,
                          mqttConnected, mqttSubs, cmds, msgCount>>)

\* a snapshot that never looks the device up
SnapshotEmpty(store, device) ==
  [device |-> device, hasLast |-> FALSE, last |-> JsNull]

\* the "hello" snapshot of a new stream: latestByDevice.get(device) || null
Snapshot(store, device) ==
  LET lastRec == IF MapHas(store, device) THEN MapGet(store, device) ELSE JsNull
  IN  [device |-> device, hasLast |-> lastRec # JsNull, last |-> lastRec]

\* registering a response in sseByDevice
Subscribe(registry, device, res) ==
  LET withSet == IF ~MapHas(registry, device)
                 THEN MapSet(registry, device, << >>)
                 ELSE registry
  IN  MapSet(withSet, device, SetAdd(MapGet(withSet, device), res))

\* a close handler that leaves the emptied Set in the Map
UnsubscribeKeepEmpty(registry, device, res) ==
  IF MapHas(registry, device)
  THEN MapSet(registry, device, SetDelete(MapGet(registry, device), res))
  ELSE registry

\* a close handler that removes nothing
UnsubscribeNever(registry, device, res) == registry

\* the close handler of a stream: remove the response, drop an empty Set
Unsubscribe(registry, device, res) ==
  IF MapHas(registry, device)
  THEN LET set == SetDelete(MapGet(registry, device), res)
       IN  IF Len(set) = 0
           THEN MapDelete(registry, device)
           ELSE MapSet(registry, device, set)
  ELSE registry

\* GET /api/stream/:device
GetStream(param, cookie) ==
  LET req == Request("GET", Slashed(<<StrApi, StrStream, param>>), cookie)
      device == Trim(param)
  IN  Gate(req,
           IF Len(device) = 0
           THEN /\ last' = Http(req, DeviceRequired)
                /\ UNCHANGED <<now, jar, latestByDevice, sseByDevice, streams, written,
                               mqttConnected, mqttSubs, cmds, msgCount>>
           ELSE /\ \E r \in Res : streams[r].state = "unused"
                /\ LET res == CHOOSE r \in Res :
                                /\ streams[r].state = "unused"
                                /\ \A q \in Res : streams[q].state = "unused" => r <= q
                   IN  /\ written' = [written EXCEPT ![res] =
                                         sseSend(@, "hello", Snapshot(latestByDevice, device))]
                       /\ sseByDevice' = Subscribe(sseByDevice, device, res)
                       /\ streams' = [streams EXCEPT
                                        ![res] = [state |-> "open", device |-> device]]
                       /\ last' = Http(req, Response(200, "", "", [stream |-> res]))
                /\ UNCHANGED <<now, jar, latestByDevice,
                               mqttConnected, mqttSubs, cmds, msgCount>>)

\* the connection of a stream breaks (the peer is gone): from now on a write
\* to the response fails; the close event of the request is still to come
StreamBreak(res) ==
  /\ streams[res].state = "open"
  /\ streams' = [streams EXCEPT ![res].state = "broken"]
  /\ last' = [kind |-> "break", res |-> res]
  /\ UNCHANGED <<now, jar, latestByDevice, sseByDevice, written,
                 mqttConnected, mqttSubs, cmds, msgCount>>

\* req.on("close") of a stream request
StreamClose(res) ==
  /\ streams[res].state \in {"open", "broken"}
  /\ sseByDevice' = Unsubscribe(sseByDevice, streams[res].device, res)
  /\ streams' = [streams EXCEPT ![res].state = "closed"]
  /\ last' = [kind |-> "close", res |-> res]
  /\ UNCHANGED <<now, jar, latestByDevice, written,
                 mqttConnected, mqttSubs, cmds, msgCount>>

\* a loop that stops after the first response of the Set
FanOutFirstOnly(clients, w, record) ==
  IF Len(clients) = 0 THEN w
  ELSE [w EXCEPT ![clients[1]] = sseSend(@, "telemetry", record)]

\* a loop that sends the record twice to every response
RECURSIVE FanOutTwice(_, _, _)
FanOutTwice(clients, w, record) ==
  IF Len(clients) = 0 THEN w
  ELSE FanOutTwice(Tail(clients),
                   [w EXCEPT ![clients[1]] =
                      sseSend(sseSend(@, "telemetry", record), "telemetry", record)],
                   record)

\* a loop over every response that has a stream, whatever its device
FanOutBroadcast(clients, w, record) ==
  [r \in DOMAIN w |-> IF Len(w[r]) > 0 THEN sseSend(w[r], "telemetry", record) ELSE w[r]]

\* the loop of mqttClient.on("message") over the Set of the device
RECURSIVE FanOut(_, _, _)
FanOut(clients, w, record) ==
  IF Len(clients) = 0 THEN w
  ELSE FanOut(Tail(clients),
              [w EXCEPT ![clients[1]] = sseSend(@, "telemetry", record)],
              record)

\* a record that keeps the raw text of parsed payloads only
BuildRecordDropRaw(topic, payloadBuf, t) ==
  LET raw == ToStringUtf8(payloadBuf)
      p == JsonParse(raw)
  IN  [ts |-> t, topic |-> topic, raw |-> IF p.threw THEN << >> ELSE raw,
       parsed |-> IF p.threw THEN JsNull ELSE p.val]

\* the record of a message: raw text, parsed payload or null, arrival time
BuildRecord(topic, payloadBuf, t) ==
  LET raw == ToStringUtf8(payloadBuf)
      p == JsonParse(raw)
  IN  [ts |-> t, topic |-> topic, raw |-> raw,
       parsed |-> IF p.threw THEN JsNull ELSE p.val]

\* mqttClient.on("message")
OnMessage(topic, payloadBuf) ==
  /\ msgCount < MaxMsgs
  /\ msgCount' = msgCount + 1
  /\ last' = [kind |-> "message", topic |-> topic, payloadBuf |-> payloadBuf, at |-> now]
  /\ LET d == getDeviceFromTopic(topic)
     IN  IF d.null \/ Len(d.val) = 0
         THEN UNCHANGED <<latestByDevice, written>>
         ELSE LET device == d.val
                  record == BuildRecord(topic, payloadBuf, now)
              IN  /\ latestByDevice' = MapSet(latestByDevice, device, record)
                  /\ written' = IF MapHas(sseByDevice, device)
                                THEN FanOut(MapGet(sseByDevice, device), written, record)
                                ELSE written
  /\ UNCHANGED <<now, jar, sseByDevice, streams, mqttConnected, mqttSubs, cmds>>

\* POST /api/device/:device/cmd; the body of the request is {}
CmdBody == [t |-> "obj"]

PostCmd(param, cookie) ==
  LET req == Request("POST", Slashed(<<StrApi, StrDevice, param, StrCmd>>), cookie)
      device == Trim(param)
  IN  Gate(req,
           IF Len(device) = 0
           THEN /\ last' = Http(req, DeviceRequired)
                /\ UNCHANGED <<now, jar, latestByDevice, sseByDevice, streams, written,
                               mqttConnected, mqttSubs, cmds, msgCount>>
           ELSE /\ Len(cmds) < MaxCmds
                /\ cmds' = Append(cmds,
                             [topic |-> Join(<<TOPIC_PREFIX, device, StrCmd>>, "/"),
                              payload |-> JsonStringify(CmdBody),
                              qos |-> 1,
                              retain |-> FALSE,
                              connected |-> mqttConnected,
                              resp |-> JsNull])
                /\ last' = Http(req, JsNull)
                /\ UNCHANGED <<now, jar, latestByDevice, sseByDevice, streams, written,
                               mqttConnected, mqttSubs, msgCount>>)

(***************************************************************************)
(* The MQTT client.  With reconnectPeriod set, a QoS 1 publish made while  *)
(* the client is offline is stored and sent after the next connect; its    *)
(* callback runs when the broker acknowledges it, or with an error when    *)
(* the client gives the packet up.                                         *)
(***************************************************************************)
\* the publish callback, err = null
PublishDone(i) ==
  /\ i \in 1..Len(cmds)
  /\ cmds[i].resp = JsNull
  /\ mqttConnected
  /\ cmds' = [cmds EXCEPT ![i].resp =
                Response(200, "", "", [ok |-> TRUE, topic |-> cmds[i].topic])]
  /\ last' = [kind |-> "published", cmd |-> i]
  /\ UNCHANGED <<now, jar, latestByDevice, sseByDevice, streams, written,
                 mqttConnected, mqttSubs, msgCount>>

\* the publish callback, err set
PublishError(i) ==
  /\ i \in 1..Len(cmds)
  /\ cmds[i].resp = JsNull
  /\ cmds' = [cmds EXCEPT ![i].resp = PublishFailed]
  /\ last' = [kind |-> "publish error", cmd |-> i]
  /\ UNCHANGED <<now, jar, latestByDevice, sseByDevice, streams, written,
                 mqttConnected, mqttSubs, msgCount>>

\* a connect handler that subscribes on the first connect only
OnConnectOnce ==
  /\ ~mqttConnected
  /\ Len(mqttSubs) < MaxConnects
  /\ mqttConnected' = TRUE
  /\ mqttSubs' = IF Len(mqttSubs) = 0
                 THEN <<[topic |-> Join(<<TOPIC_PREFIX, <<"+">>, StrTelemetry>>, "/"),
                         qos |-> 1, ack |-> "pending"]>>
                 ELSE mqttSubs
  /\ last' = [kind |-> "connect"]
  /\ UNCHANGED <<now, jar, latestByDevice, sseByDevice, streams, written,
                 cmds, msgCount>>

\* mqttClient.on("connect"): runs on the first connect and on every reconnect
OnConnect ==
  /\ ~mqttConnected
  /\ Len(mqttSubs) < MaxConnects
  /\ mqttConnected' = TRUE
  /\ mqttSubs' = Append(mqttSubs,
                   [topic |-> Join(<<TOPIC_PREFIX, <<"+">>, StrTelemetry>>, "/"),
                    qos |-> 1,
                    ack |-> "pending"])
  /\ last' = [kind |-> "connect"]
  /\ UNCHANGED <<now, jar, latestByDevice, sseByDevice, streams, written,
                 cmds, msgCount>>

\* the subscribe callback, err = null: console.log
SubscribeDone(i) ==
  /\ i \in 1..Len(mqttSubs)
  /\ mqttSubs[i].ack = "pending"
  /\ mqttSubs' = [mqttSubs EXCEPT ![i].ack = "ok"]
  /\ last' = [kind |-> "subscribed", sub |-> i]
  /\ UNCHANGED <<now, jar, latestByDevice, sseByDevice, streams, written,
                 mqttConnected, cmds, msgCount>>

\* the subscribe callback, err set: console.error
SubscribeError(i) ==
  /\ i \in 1..Len(mqttSubs)
  /\ mqttSubs[i].ack = "pending"
  /\ mqttSubs' = [mqttSubs EXCEPT ![i].ack = "error"]
  /\ last' = [kind |-> "subscribe error", sub |-> i]
  /\ UNCHANGED <<now, jar, latestByDevice, sseByDevice, streams, written,
                 mqttConnected, cmds, msgCount>>

\* mqttClient.on("reconnect"): console.log
OnReconnect ==
  /\ ~mqttConnected
  /\ last' = [kind |-> "reconnect"]
  /\ UNCHANGED <<now, jar, latestByDevice, sseByDevice, streams, written,
                 mqttConnected, mqttSubs, cmds, msgCount>>

\* mqttClient.on("close"): console.log
OnClose ==
  /\ mqttConnected
  /\ mqttConnected' = FALSE
  /\ last' = [kind |-> "mqtt close"]
  /\ UNCHANGED <<now, jar, latestByDevice, sseByDevice, streams, written,
                 mqttSubs, cmds, msgCount>>

\* an error handler that empties the store
OnErrorClearing ==
  /\ last' = [kind |-> "mqtt error"]
  /\ latestByDevice' = << >>
  /\ UNCHANGED <<now, jar, sseByDevice, streams, written,
                 mqttConnected, mqttSubs, cmds, msgCount>>

\* mqttClient.on("error"): console.error
OnError ==
  /\ last' = [kind |-> "mqtt error"]
  /\ UNCHANGED <<now, jar, latestByDevice, sseByDevice, streams, written,
                 mqttConnected, mqttSubs, cmds, msgCount>>

(***************************************************************************)
(* The event loop: one handler at a time.                                  *)
(*                                                                         *)
(* Spec      the bridge: a logged-in browser, streams and bus messages     *)
(* SpecAuth  the auth gate: every kind of cookie on every protected route, *)
(*           with the clock running past the expiry of the token, and one  *)
(*           bus message                                                   *)
(* SpecCmd   the command path: the bus connection going up and down        *)
(* SpecBus   the bus connection: connect, close, reconnect, error and the   *)
(*           outcome of each subscribe, next to a stream and messages      *)
(* SpecFail  the bridge with stream connections that break before their    *)
(*           close event is handled                                        *)
(* SpecFrame every kind of event: messages of one device, streams and      *)
(*           commands of another, rejected requests, the bus connection    *)
(* SpecList  the device listing: messages of three devices in any order    *)
(* SpecToken the token check: verifyToken on the issued token, on what a   *)
(*           forger makes of it and on values that are no token            *)
(***************************************************************************)
JarCookie == << [k |-> COOKIE_NAME, v |-> encodeURIComponent(jar)] >>

GoodCredentials == { c \in Credentials : c.pass = DASH_PASS }

OneTopic == { Join(<<TOPIC_PREFIX, StrS1, StrTelemetry>>, "/") }

Next ==
  \/ \E cred \in GoodCredentials : PostLogin(cred)
  \/ \E param \in StreamParams : GetStream(param, JarCookie)
  \/ \E res \in Res : StreamClose(res)
  \/ \E topic \in Topics, payloadBuf \in Payloads : OnMessage(topic, payloadBuf)

Spec == Init /\ [][Next]_vars

NextAuth ==
  \/ \E step \in {1, TokenTtlMs} : Tick(step)
  \/ \E cred \in Credentials : PostLogin(cred)
  \/ \E cookie \in CookieHeaders : GetStatic(cookie)
  \/ \E cookie \in CookieHeaders : GetDevices(cookie)
  \/ \E cookie \in CookieHeaders : GetState(cookie)
  \/ \E param \in {StrS1}, cookie \in CookieHeaders : GetStream(param, cookie)
  \/ \E param \in {StrS1}, cookie \in CookieHeaders : PostCmd(param, cookie)
  \/ \E topic \in OneTopic : msgCount = 0 /\ OnMessage(topic, BufTemp)

SpecAuth == Init /\ [][NextAuth]_vars

NextCmd ==
  \/ \E cred \in GoodCredentials : PostLogin(cred)
  \/ \E param \in DeviceParams : PostCmd(param, JarCookie)
  \/ \E i \in 1..MaxCmds : PublishDone(i)
  \/ \E i \in 1..MaxCmds : PublishError(i)
  \/ OnConnect
  \/ OnClose
  \/ \E topic \in OneTopic, payloadBuf \in Payloads : OnMessage(topic, payloadBuf)
  \/ GetDevices(JarCookie)

SpecCmd == Init /\ [][NextCmd]_vars

NextBus ==
  \/ OnConnect
  \/ OnReconnect
  \/ OnClose
  \/ OnError
  \/ \E i \in 1..MaxConnects : SubscribeDone(i)
  \/ \E i \in 1..MaxConnects : SubscribeError(i)
  \/ \E cred \in GoodCredentials : PostLogin(cred)
  \/ \E param \in {StrS1} : GetStream(param, JarCookie)
  \/ \E topic \in OneTopic : OnMessage(topic, BufTemp)

SpecBus == Init /\ [][NextBus]_vars

NextFrame ==
  \/ \E cred \in GoodCredentials : PostLogin(cred)
  \/ \E cookie \in {JarCookie, << >>} : GetStream(StrS2, cookie)
  \/ \E res \in Res : StreamClose(res)
  \/ PostCmd(StrS2, JarCookie)
  \/ \E i \in 1..MaxCmds : PublishDone(i)
  \/ \E i \in 1..MaxCmds : PublishError(i)
  \/ OnConnect
  \/ OnReconnect
  \/ OnClose
  \/ OnError
  \/ \E topic \in OneTopic : OnMessage(topic, BufTemp)
  \/ GetDevices(JarCookie)

SpecFrame == Init /\ [][NextFrame]_vars

TwoTopics ==
  { Join(<<TOPIC_PREFIX, d, StrTelemetry>>, "/") : d \in {StrS1, StrS2} }

NextFail ==
  \/ \E cred \in GoodCredentials : PostLogin(cred)
  \/ \E param \in {StrS1, StrS2} : GetStream(param, JarCookie)
  \/ \E res \in Res : StreamBreak(res)
  \/ \E res \in Res : StreamClose(res)
  \/ \E topic \in TwoTopics : OnMessage(topic, BufTemp)

SpecFail == Init /\ [][NextFail]_vars

\* telemetry topics of three devices
DeviceTopics ==
  { Join(<<TOPIC_PREFIX, d, StrTelemetry>>, "/") : d \in {StrS1, StrS2, StrS10} }

NextList ==
  \/ \E cred \in GoodCredentials : PostLogin(cred)
  \/ \E topic \in DeviceTopics, payloadBuf \in Payloads : OnMessage(topic, payloadBuf)
  \/ GetDevices(JarCookie)

SpecList == Init /\ [][NextList]_vars

NextToken ==
  \/ \E step \in {1, TokenTtlMs} : Tick(step)
  \/ \E cred \in Credentials : PostLogin(cred)
  \/ jar # NoToken /\ \E value \in VerifyInputs : CallVerifyToken(value)

SpecToken == Init /\ [][NextToken]_vars

(***************************************************************************)
(* Properties.                                                             *)
(***************************************************************************)
\* the routes registered in front of requireAuth
IsProtected(req) == req.path # Slashed(<<StrLogin>>)

TokenOf(req) == getCookie(req.cookie, COOKIE_NAME)

\* the request of the step carries no auth cookie or one verifyToken refuses
Refused(req, t) ==
  /\ ~TokenOf(req).threw
  /\ verifyToken(TokenOf(req).val, t) = JsNull

\* C1: a request to a protected endpoint whose auth cookie is missing or fails
\* verifyToken is answered by requireAuth and the handler does not run: the
\* subscriber registry, the published commands, the streams and the device
\* store stay as they were; a path under /api/ gets 401 "unauthorized", any
\* other path a redirect to /login.
C1_RejectedBeforeHandler ==
  [][ (/\ last'.kind = "http"
       /\ IsProtected(last'.req)
       /\ Refused(last'.req, last'.at))
      => (/\ UNCHANGED <<latestByDevice, sseByDevice, streams, written, cmds>>
          /\ last'.resp = IF StartsWith(last'.req.path, StrApiSlash)
                          THEN Unauthorized
                          ELSE RedirectTo("/login")) ]_vars

\* an expired cookie is refused on the stream route while a record is stored
\* and a subscriber is registered
C1_Witness ==
  /\ last.kind = "http"
  /\ last.req.path = Slashed(<<StrApi, StrStream, StrS1>>)
  /\ jar # NoToken
  /\ last.req.cookie = JarCookie
  /\ Refused(last.req, last.at)
  /\ last.resp = Unauthorized
  /\ Len(latestByDevice) > 0
  /\ Len(sseByDevice) > 0

\* the records the store holds under a key
StoreRecords(store, d) == { store[i].v : i \in {j \in 1..Len(store) : store[j].k = d} }

\* the responses registered for a device
RegisteredFor(registry, d) ==
  { r \in Res : \E i \in 1..Len(registry) :
                  /\ registry[i].k = d
                  /\ \E j \in 1..Len(registry[i].v) : registry[i].v[j] = r }

\* the step opens the stream of response r
Opened(r) == streams[r].state = "unused" /\ streams'[r].state = "open"

\* C2: the first event written to a newly opened stream for device d is the
\* "hello" snapshot, and every later event of the stream is "telemetry"; the
\* snapshot is written in the step that opens the stream, with hasLast=true
\* and last = the record the store holds for d, or hasLast=false and
\* last=null when the store holds none.
C2_HelloFirst ==
  [][ \A r \in Res :
        /\ streams'[r].state # "unused" =>
             LET ev == SseEvents(written'[r])
             IN  /\ Len(ev) >= 1
                 /\ ev[1].event = "hello"
                 /\ \A i \in 2..Len(ev) : ev[i].event = "telemetry"
        /\ Opened(r) =>
             LET d == streams'[r].device
                 recs == StoreRecords(latestByDevice, d)
                 ev == SseEvents(written'[r])
             IN  /\ Len(ev) = 1
                 /\ ev[1].data.device = d
                 /\ IF recs = {}
                    THEN ev[1].data.hasLast = FALSE /\ ev[1].data.last = JsNull
                    ELSE ev[1].data.hasLast = TRUE /\ recs = {ev[1].data.last} ]_vars

\* one stream opened on a device never seen, another on a device with a record
C2_Witness ==
  \E r1, r2 \in Res :
    /\ streams[r1].state = "open" /\ streams[r2].state = "open"
    /\ SseEvents(written[r1]) =
         <<[event |-> "hello",
            data |-> [device |-> streams[r1].device, hasLast |-> FALSE, last |-> JsNull]]>>
    /\ StoreRecords(latestByDevice, streams[r2].device) # {}
    /\ Len(SseEvents(written[r2])) = 1
    /\ SseEvents(written[r2])[1].data.hasLast = TRUE
    /\ SseEvents(written[r2])[1].data.last
         \in StoreRecords(latestByDevice, streams[r2].device)
    /\ last.kind = "http" /\ last.resp = Response(200, "", "", [stream |-> r2])

\* a topic with three segments or more, the configured prefix and a device name
MatchingTopic(topic) ==
  LET parts == Split(topic, "/")
  IN  Len(parts) >= 3 /\ parts[1] = TOPIC_PREFIX /\ Len(parts[2]) > 0

TopicDevice(topic) == Split(topic, "/")[2]

\* C3: when a bus message with a matching topic for device d is processed,
\* the store afterwards holds for d the record of that message (its topic,
\* its raw text, its parsed payload), and every subscriber registered for d
\* gets exactly one more event, a "telemetry" event carrying that record.
C3_StoreAndFanOut ==
  [][ (last'.kind = "message" /\ MatchingTopic(last'.topic)) =>
        LET d == TopicDevice(last'.topic)
            raw == ToStringUtf8(last'.payloadBuf)
            recs == StoreRecords(latestByDevice', d)
        IN  /\ Cardinality(recs) = 1
            /\ \A rec \in recs :
                 /\ rec.topic = last'.topic
                 /\ rec.raw = raw
                 /\ rec.parsed = (IF JsonParse(raw).threw THEN JsNull ELSE JsonParse(raw).val)
                 /\ \A r \in RegisteredFor(sseByDevice, d) :
                      SseEvents(written'[r]) =
                        Append(SseEvents(written[r]), [event |-> "telemetry", data |-> rec]) ]_vars

\* a parsed message has just gone to two subscribers of its device
C3_Witness ==
  /\ last.kind = "message"
  /\ MatchingTopic(last.topic)
  /\ last.payloadBuf = BufTemp
  /\ Cardinality(RegisteredFor(sseByDevice, TopicDevice(last.topic))) >= 2
  /\ \A r \in RegisteredFor(sseByDevice, TopicDevice(last.topic)) :
       LET ev == SseEvents(written[r])
       IN  /\ ev[Len(ev)].event = "telemetry"
           /\ ev[Len(ev)].data \in StoreRecords(latestByDevice, TopicDevice(last.topic))
           /\ ev[Len(ev)].data.parsed = [t |-> "obj", k |-> <<"t","e","m","p">>,
                                         v |-> [t |-> "num", v |-> <<"2","1",".","5">>]]

\* the token has two segments, the HMAC of its payload under AUTH_SECRET as
\* signature, and a payload that decodes to an object with an expiry
WellSigned(token) ==
  /\ Len(token) = 2
  /\ token[2] = Hmac(AUTH_SECRET, token[1])
  /\ token[1].enc = "b64json"
  /\ token[1].exp # 0

\* C4: for a correctly signed token with expiry exp, verifyToken at time now
\* returns the payload when now < exp and null when now >= exp, the instant
\* now = exp included.
C4_ValidStrictlyBeforeExpiry ==
  (/\ last.kind = "http"
   /\ IsProtected(last.req)
   /\ ~TokenOf(last.req).threw
   /\ WellSigned(TokenOf(last.req).val))
  => LET token == TokenOf(last.req).val
     IN  IF last.at < token[1].exp
         THEN verifyToken(token, last.at) = DecodeObj(token[1])
         ELSE verifyToken(token, last.at) = JsNull

\* C5: the token that signToken issued at login for identity u with
\* exp = t0 + ttl verifies to a payload with identity u and that expiry at
\* every time before ttl has elapsed (now < t0 + ttl), and to null at every
\* time after it has elapsed (now > t0 + ttl).
C5_RoundTrip ==
  jar # NoToken =>
    /\ now < jar[1].exp =>
         /\ verifyToken(jar, now) # JsNull
         /\ verifyToken(jar, now).u = DASH_USER
         /\ verifyToken(jar, now).exp = jar[1].exp
    /\ now > jar[1].exp => verifyToken(jar, now) = JsNull

\* the cookie of the login is presented a millisecond after its issue and
\* the route answers
C5_Witness ==
  /\ jar # NoToken
  /\ last.kind = "http"
  /\ last.req.path = Slashed(<<StrApi, StrDevices>>)
  /\ last.req.cookie = JarCookie
  /\ last.at + TokenTtlMs > jar[1].exp
  /\ last.at < jar[1].exp
  /\ verifyToken(jar, last.at).u = DASH_USER
  /\ last.resp.status = 200

\* a topic with fewer than three segments or another first segment
NonMatchingTopic(topic) ==
  LET parts == Split(topic, "/")
  IN  Len(parts) < 3 \/ parts[1] # TOPIC_PREFIX

\* C6: a bus message whose topic has fewer than three segments or whose first
\* segment is not the configured prefix changes neither the device store nor
\* the subscriber registry, and nothing is written to any subscriber.
C6_NonMatchingIgnored ==
  [][ (last'.kind = "message" /\ NonMatchingTopic(last'.topic))
      => UNCHANGED <<latestByDevice, sseByDevice, written>> ]_vars

\* a message with another prefix arrives while a record is stored and a
\* subscriber is registered
C6_Witness ==
  /\ last.kind = "message"
  /\ Len(Split(last.topic, "/")) = 3
  /\ Split(last.topic, "/")[1] = StrOther
  /\ Len(latestByDevice) > 0
  /\ Len(sseByDevice) > 0

StoreKeys(store) == { store[i].k : i \in 1..Len(store) }

\* C7: the store holds at most one record per device; a processed message
\* for device d leaves under d exactly the record of that message (its
\* topic, raw text and arrival time), and no other step and no other device's
\* message changes what is stored under d: the record of d is always that of
\* the message processed last for d.
C7_LastWriteWins ==
  [][ /\ \A i, j \in 1..Len(latestByDevice') :
           i # j => latestByDevice'[i].k # latestByDevice'[j].k
      /\ LET isMsg == last'.kind = "message"
             touched == IF isMsg /\ ~NonMatchingTopic(last'.topic)
                        THEN {TopicDevice(last'.topic)}
                        ELSE {}
         IN  /\ \A d \in (StoreKeys(latestByDevice) \cup StoreKeys(latestByDevice')) \ touched :
                  StoreRecords(latestByDevice', d) = StoreRecords(latestByDevice, d)
             /\ (isMsg /\ MatchingTopic(last'.topic)) =>
                  /\ Cardinality(StoreRecords(latestByDevice', TopicDevice(last'.topic))) = 1
                  /\ \A rec \in StoreRecords(latestByDevice', TopicDevice(last'.topic)) :
                       /\ rec.topic = last'.topic
                       /\ rec.raw = ToStringUtf8(last'.payloadBuf)
                       /\ rec.ts = last'.at ]_vars

\* a subscriber saw two different records of its device, and the store holds
\* the second one only
C7_Witness ==
  \E r \in Res :
    LET ev == SseEvents(written[r])
    IN  /\ Len(ev) = 3
        /\ ev[2].event = "telemetry" /\ ev[3].event = "telemetry"
        /\ ev[2].data # ev[3].data
        /\ StoreRecords(latestByDevice, streams[r].device) = {ev[3].data}
        /\ last.kind = "message"

\* C8: the close of a stream removes its response from the Set of its device
\* and from no other, deletes the entry of the device when that was its last
\* response, and so the registry never holds a device with an empty Set.
C8_CloseUnsubscribes ==
  [][ /\ \A i \in 1..Len(sseByDevice') : Len(sseByDevice'[i].v) > 0
      /\ last'.kind = "close" =>
           LET r == last'.res
               d == streams[r].device
           IN  /\ \A k \in StoreKeys(sseByDevice) \cup StoreKeys(sseByDevice') :
                    RegisteredFor(sseByDevice', k) = RegisteredFor(sseByDevice, k) \ {r}
               /\ r \in RegisteredFor(sseByDevice, d)
               /\ RegisteredFor(sseByDevice, d) = {r} => d \notin StoreKeys(sseByDevice') ]_vars

\* the only subscriber of a device has closed while another device keeps one
C8_Witness ==
  /\ last.kind = "close"
  /\ streams[last.res].state = "closed"
  /\ streams[last.res].device \notin StoreKeys(sseByDevice)
  /\ Len(sseByDevice) = 1

\* C9: a command submitted while the bus connection is down is answered with
\* the failure "publish_failed", and the device store is not changed by it.
C9_DownPublishFails ==
  \A i \in 1..Len(cmds) :
    (~cmds[i].connected /\ cmds[i].resp # JsNull) => cmds[i].resp = PublishFailed

\* C10: a matching message whose payload is no JSON is kept: the record
\* stored for the device has parsed = null and the payload text as raw, and
\* every subscriber registered for the device gets that record as one more
\* "telemetry" event.
C10_UnparseableKept ==
  [][ (/\ last'.kind = "message"
       /\ MatchingTopic(last'.topic)
       /\ JsonParse(ToStringUtf8(last'.payloadBuf)).threw)
      => LET d == TopicDevice(last'.topic)
             recs == StoreRecords(latestByDevice', d)
         IN  /\ recs # {}
             /\ \A rec \in recs :
                  /\ rec.parsed = JsNull
                  /\ rec.raw = ToStringUtf8(last'.payloadBuf)
                  /\ \A r \in RegisteredFor(sseByDevice, d) :
                       LET ev == SseEvents(written'[r])
                       IN  /\ Len(ev) = Len(SseEvents(written[r])) + 1
                           /\ ev[Len(ev)] = [event |-> "telemetry", data |-> rec] ]_vars

\* a payload with a byte that is no UTF-8 has been stored and delivered
C10_Witness ==
  /\ last.kind = "message"
  /\ MatchingTopic(last.topic)
  /\ last.payloadBuf = BufBinary
  /\ RegisteredFor(sseByDevice, TopicDevice(last.topic)) # {}
  /\ \A r \in RegisteredFor(sseByDevice, TopicDevice(last.topic)) :
       LET ev == SseEvents(written[r])
       IN  /\ ev[Len(ev)].data.parsed = JsNull
           /\ ev[Len(ev)].data.raw = <<"{", "uFFFD", "}">>
           /\ StoreRecords(latestByDevice, TopicDevice(last.topic)) = {ev[Len(ev)].data}

\* C11: once a token has been issued and while it has not expired, every
\* string that differs from it in the signature segment or in the payload
\* segment, a change that keeps the length included, verifies to null; and
\* at every time the empty string, a string with one or three segments, a
\* signed payload that decodes to no object or to an object without exp, and
\* a value that is no string verify to null, as a returned value.
C11_TamperedOrMalformedInvalid ==
  (last.kind = "verify" /\ jar # NoToken) =>
    /\ (/\ last.at < jar[1].exp
        /\ last.value.type = "string"
        /\ last.value.str \in TamperedTokens(jar))
       => last.result = JsNull
    /\ (\/ last.value.type # "string"
        \/ last.value.str \in MalformedTokens(jar))
       => last.result = JsNull

\* the issued token under another signature of the same length has just been
\* refused before the expiry, at a time when the issued token itself verifies
C11_Witness ==
  /\ last.kind = "verify"
  /\ jar # NoToken
  /\ last.at < jar[1].exp
  /\ last.value = JsString(<<jar[1], Hmac("guess", jar[1])>>)
  /\ last.result = JsNull
  /\ verifyToken(jar, last.at) = DecodeObj(jar[1])

\* C12: the answer of GET /api/devices lists exactly the devices that have a
\* record in the store, each once, in ascending order of their characters'
\* codes, whatever the order in which the devices entered the store.
C12_ListingSorted ==
  (/\ last.kind = "http"
   /\ last.req.path = Slashed(<<StrApi, StrDevices>>)
   /\ last.resp.status = 200)
  => LET devices == last.resp.body.devices
     IN  /\ { devices[i] : i \in 1..Len(devices) } = StoreKeys(latestByDevice)
         /\ Len(devices) = Cardinality(StoreKeys(latestByDevice))
         /\ \A i, j \in 1..Len(devices) : i < j => StrLess(devices[i], devices[j])

\* s2 entered the store before s10 and the listing names s10 first
C12_Witness ==
  /\ last.kind = "http"
  /\ last.req.path = Slashed(<<StrApi, StrDevices>>)
  /\ last.resp.status = 200
  /\ MapKeys(latestByDevice) = <<StrS2, StrS10>>
  /\ last.resp.body.devices = <<StrS10, StrS2>>

\* C13: when a record for device d is fanned out and the write to a
\* subscriber of d fails (its connection is broken), that subscriber is out
\* of the registry after the step, every other subscriber of d gets the
\* record as one more "telemetry" event, and the record is stored.
C13_FailedWriteRemoves ==
  [][ (last'.kind = "message" /\ MatchingTopic(last'.topic)) =>
        LET d == TopicDevice(last'.topic)
            recs == StoreRecords(latestByDevice', d)
        IN  /\ Cardinality(recs) = 1
            /\ \A r \in RegisteredFor(sseByDevice, d) :
                 IF streams[r].state = "broken"
                 THEN r \notin RegisteredFor(sseByDevice', d)
                 ELSE \E rec \in recs :
                        SseEvents(written'[r]) =
                          Append(SseEvents(written[r]),
                                 [event |-> "telemetry", data |-> rec]) ]_vars

\* C14: what a subscriber of device d reads is built in the order of the
\* steps: the step that opens its stream writes the "hello" event alone;
\* every processed matching message for d, from then to its close, adds
\* exactly one "telemetry" event at the end, carrying that message (topic, raw
\* text, arrival time); no other step (another device's message, a message
\* that matches nothing, any step after the close) writes anything to it.
\* So its "telemetry" events are the messages for d processed between its
\* registration and its close, in order, none twice and none left out.
C14_PerSubscriberFifo ==
  [][ \A r \in Res :
        LET before == SseEvents(written[r])
            after == SseEvents(written'[r])
        IN  IF Opened(r)
            THEN Len(after) = 1 /\ after[1].event = "hello"
            ELSE IF /\ last'.kind = "message"
                    /\ MatchingTopic(last'.topic)
                    /\ streams[r].state \in {"open", "broken"}
                    /\ streams[r].device = TopicDevice(last'.topic)
                 THEN /\ Len(after) = Len(before) + 1
                      /\ SubSeq(after, 1, Len(before)) = before
                      /\ after[Len(after)].event = "telemetry"
                      /\ after[Len(after)].data.topic = last'.topic
                      /\ after[Len(after)].data.raw = ToStringUtf8(last'.payloadBuf)
                      /\ after[Len(after)].data.ts = last'.at
                 ELSE written'[r] = written[r] ]_vars

\* two messages of one device with different payloads: the stream opened
\* before both has read both in their order, the stream opened between them
\* has read the second only, after a snapshot with the first
C14_Witness ==
  \E r1, r2 \in Res :
    LET ev1 == SseEvents(written[r1])
        ev2 == SseEvents(written[r2])
    IN  /\ Len(ev1) = 3 /\ Len(ev2) = 2
        /\ ev1[1].data.hasLast = FALSE
        /\ ev1[2].data # ev1[3].data
        /\ ev2[1].data.last = ev1[2].data
        /\ ev2[2] = ev1[3]
        /\ ev2[2].event = "telemetry"

\* C15: every processed message whose topic has three segments or more and
\* the configured prefix as first segment leaves in the store, under the
\* second segment of its topic, a record with its topic and raw text; the
\* second segment may be any string, the empty one included.
C15_EveryPrefixedTopicStored ==
  [][ (/\ last'.kind = "message"
       /\ Len(Split(last'.topic, "/")) >= 3
       /\ Split(last'.topic, "/")[1] = TOPIC_PREFIX)
      => \E rec \in StoreRecords(latestByDevice', Split(last'.topic, "/")[2]) :
           /\ rec.topic = last'.topic
           /\ rec.raw = ToStringUtf8(last'.payloadBuf) ]_vars

\* C16: processing a message for device d leaves the record stored for
\* every other device as it was, leaves the subscriber set of every device
\* other than d as it was, and writes nothing to a stream of another device.
C16_CrossDeviceIsolation ==
  [][ (last'.kind = "message" /\ MatchingTopic(last'.topic)) =>
        LET d == TopicDevice(last'.topic)
        IN  /\ \A k \in (StoreKeys(latestByDevice) \cup StoreKeys(latestByDevice')) \ {d} :
                 StoreRecords(latestByDevice', k) = StoreRecords(latestByDevice, k)
            /\ \A k \in (StoreKeys(sseByDevice) \cup StoreKeys(sseByDevice')) \ {d} :
                 RegisteredFor(sseByDevice', k) = RegisteredFor(sseByDevice, k)
            /\ \A r \in Res : streams[r].device # d => written'[r] = written[r] ]_vars

\* a message for one device has gone to its subscriber while another device
\* has a record and a subscriber that has read its snapshot only
C16_Witness ==
  /\ last.kind = "message"
  /\ MatchingTopic(last.topic)
  /\ \E r1, r2 \in Res :
       /\ r1 \in RegisteredFor(sseByDevice, TopicDevice(last.topic))
       /\ Len(SseEvents(written[r1])) = 2
       /\ streams[r2].device # TopicDevice(last.topic)
       /\ r2 \in RegisteredFor(sseByDevice, streams[r2].device)
       /\ StoreRecords(latestByDevice, streams[r2].device) # {}
       /\ Len(SseEvents(written[r2])) = 1

\* C17: under every interleaving of messages, stream opens and closes, a
\* subscriber whose close has been processed is in no Set of the registry
\* after that step and after every later step, it stays closed, and no step
\* from the close on writes to it.
C17_NothingAfterClose ==
  [][ \A r \in Res :
        /\ streams'[r].state = "closed" =>
             /\ \A i \in 1..Len(sseByDevice') : ~SetHas(sseByDevice'[i].v, r)
             /\ written'[r] = written[r]
        /\ streams[r].state = "closed" => streams'[r].state = "closed" ]_vars

\* a message has gone to the open subscriber of its device and not to the
\* one that had closed before
C17_Witness ==
  /\ last.kind = "message"
  /\ MatchingTopic(last.topic)
  /\ \E r1, r2 \in Res :
       /\ streams[r1].state = "closed"
       /\ streams[r1].device = TopicDevice(last.topic)
       /\ streams[r2].state = "open"
       /\ streams[r2].device = TopicDevice(last.topic)
       /\ Len(SseEvents(written[r1])) = 1
       /\ Len(SseEvents(written[r2])) = 2
       /\ SseEvents(written[r2])[2].data \in StoreRecords(latestByDevice, TopicDevice(last.topic))

\* the pattern <prefix>/+/telemetry
WildcardTopic == TOPIC_PREFIX \o <<"/", "+", "/">> \o StrTelemetry

\* C18: every step in which the bus connection becomes connected, the first
\* connect and every reconnect alike, makes one subscribe call for
\* <prefix>/+/telemetry at QoS 1; a subscribe whose callback reports an error
\* changes neither the store nor the registry nor any stream, and the
\* connection state stays as it is.
C18_SubscribeOnEveryConnect ==
  [][ /\ (~mqttConnected /\ mqttConnected') =>
           mqttSubs' = Append(mqttSubs,
                         [topic |-> WildcardTopic, qos |-> 1, ack |-> "pending"])
      /\ last'.kind = "subscribe error" =>
           UNCHANGED <<latestByDevice, sseByDevice, streams, written,
                       mqttConnected, cmds>> ]_vars

\* the subscribe of a reconnect has failed, and after it a message has been
\* stored and sent to the subscriber of its device
C18_Witness ==
  /\ Len(mqttSubs) = 2
  /\ mqttSubs[2].ack = "error"
  /\ last.kind = "message"
  /\ StoreRecords(latestByDevice, TopicDevice(last.topic)) # {}
  /\ \E r \in Res :
       /\ r \in RegisteredFor(sseByDevice, TopicDevice(last.topic))
       /\ SseEvents(written[r])[Len(SseEvents(written[r]))].event = "telemetry"

\* what the event says the store holds for the device: the last of a
\* "hello" snapshot, the record of a "telemetry" event
Carried(e) == IF e.event = "hello" THEN e.data.last ELSE e.data

\* C19: in every reachable state, the event written last to a subscriber
\* that is registered for device d carries what the store holds for d: the
\* record of d when there is one, and otherwise the snapshot with
\* hasLast = false and last = null.
C19_LastEventIsStoreValue ==
  \A r \in Res :
    LET d == streams[r].device
        ev == SseEvents(written[r])
        recs == StoreRecords(latestByDevice, d)
    IN  r \in RegisteredFor(sseByDevice, d) =>
          /\ Len(ev) >= 1
          /\ IF recs = {}
             THEN /\ ev[Len(ev)].event = "hello"
                  /\ ev[Len(ev)].data.hasLast = FALSE
                  /\ ev[Len(ev)].data.last = JsNull
             ELSE /\ recs = {Carried(ev[Len(ev)])}
                  /\ ev[Len(ev)].event = "hello" => ev[Len(ev)].data.hasLast = TRUE

\* two messages of one device have been processed: the subscriber registered
\* before the second has it as a "telemetry" event, the one registered after
\* it has it in its snapshot
C19_Witness ==
  /\ msgCount = 2
  /\ \E r1, r2 \in Res :
       LET ev1 == SseEvents(written[r1])
           ev2 == SseEvents(written[r2])
       IN  /\ r1 \in RegisteredFor(sseByDevice, streams[r1].device)
           /\ r2 \in RegisteredFor(sseByDevice, streams[r1].device)
           /\ Len(ev1) = 2 /\ ev1[1].data.hasLast = TRUE
           /\ ev1[1].data.last # ev1[2].data
           /\ Len(ev2) = 1 /\ ev2[1].data.last = ev1[2].data
           /\ StoreRecords(latestByDevice, streams[r1].device) = {ev1[2].data}

\* C20: a step changes the device store only if it processes a message with
\* a matching topic, and then the only key it can add is the device of that
\* topic: opening a stream (also on a device never seen), closing one, a
\* command and its publish callback with or without error, a rejected
\* request, and the connect, reconnect, close and error events of the bus
\* leave the store as it is; and the device listing names keys of the store
\* only, so a device that was only subscribed to or commanded is not in it.
C20_StoreChangedByMessagesOnly ==
  [][ /\ latestByDevice' # latestByDevice =>
           /\ last'.kind = "message"
           /\ MatchingTopic(last'.topic)
           /\ StoreKeys(latestByDevice') =
                StoreKeys(latestByDevice) \cup {TopicDevice(last'.topic)}
      /\ (/\ last'.kind = "http"
          /\ last'.req.path = Slashed(<<StrApi, StrDevices>>)
          /\ last'.resp.status = 200)
         => \A i \in 1..Len(last'.resp.body.devices) :
              last'.resp.body.devices[i] \in StoreKeys(latestByDevice) ]_vars

\* the listing names s1 alone although s2 has a subscriber and a command for
\* s2 has been published, after the bus connection had gone down and come
\* back
C20_Witness ==
  /\ last.kind = "http"
  /\ last.req.path = Slashed(<<StrApi, StrDevices>>)
  /\ last.resp.status = 200
  /\ last.resp.body.devices = <<StrS1>>
  /\ RegisteredFor(sseByDevice, StrS2) # {}
  /\ Len(cmds) > 0
  /\ cmds[1].topic = Join(<<TOPIC_PREFIX, StrS2, StrCmd>>, "/")
  /\ cmds[1].resp # JsNull
  /\ Len(mqttSubs) = 2

====
